---- MODULE Spec2Model ----
(***************************************************************************)
(* Model of scripts/utils/build_collections_db.py: the fetch -> transform  *)
(* -> load pipeline that builds the IDC collections database, and the      *)
(* database it leaves behind (table collections, FTS index collections_fts *)
(* and the three synchronisation triggers).                                *)
(*                                                                         *)
(* Python values: None is the empty tuple, any other value x is the        *)
(* 1-tuple <<x>>.  A str whose characters matter (the description) is a   *)
(* sequence of 1-character strings; a dict is a function whose DOMAIN is   *)
(* the set of keys it holds.                                               *)
(***************************************************************************)
EXTENDS Integers, Sequences, FiniteSets, Bags, TLC

VARIABLES pc, api, requests, collections, entered, prior, file,
          conn, idx, fired, bulk, commits, count, error, writes,
          markup, html, fixed, md

vars == <<pc, api, requests, collections, entered, prior, file,
          conn, idx, fired, bulk, commits, count, error, writes,
          markup, html, fixed, md>>

pipeline_vars == <<api, requests, collections, entered, prior, file,
                   conn, idx, fired, bulk, commits, count, error, writes>>

html_vars == <<markup, html, fixed, md>>

----------------------------------------------------------------------------
(* Bounds of the model *)

MaxRecords == 2
MaxWrites == 2
MaxSymbols == 5

----------------------------------------------------------------------------
(* Python values *)

None == <<>>
Val(x) == <<x>>

(* dict.get(key, default) *)
Get(d, key, default) == IF key \in DOMAIN d THEN d[key] ELSE default

(* Python truthiness of a str-or-None value: None and "" are falsy *)
Falsy(v) == v = None \/ v = Val(<<>>)

RECURSIVE Flatten(_)
Flatten(ss) == IF ss = <<>> THEN <<>> ELSE Head(ss) \o Flatten(Tail(ss))

(* s[i..] *)
From(s, i) == SubSeq(s, i, Len(s))

StartsWith(s, p) == Len(s) >= Len(p) /\ SubSeq(s, 1, Len(p)) = p

----------------------------------------------------------------------------
(* html_to_markdown *)

QUOTE == "\""

(* the literal head of the pattern r'href="" url="([^"]+)"' *)
PatternHead == <<"h","r","e","f","=",QUOTE,QUOTE," ","u","r","l","=",QUOTE>>
HrefOpen == <<"h","r","e","f","=",QUOTE>>

(* length of the longest run of non-quote characters at the head of s: [^"]+ is greedy *)
RECURSIVE RunLen(_)
RunLen(s) == IF s = <<>> \/ Head(s) = QUOTE THEN 0 ELSE 1 + RunLen(Tail(s))

(* length of the match of the pattern at the head of s, 0 when there is none *)
MatchLen(s) ==
    IF ~StartsWith(s, PatternHead) THEN 0
    ELSE LET rest == From(s, Len(PatternHead) + 1)
             n == RunLen(rest)
         IN IF n >= 1 /\ Len(rest) > n THEN Len(PatternHead) + n + 1 ELSE 0

(* re.sub with count=1: only the first match is replaced *)
RECURSIVE re_sub_first(_)
re_sub_first(s) ==
    IF s = <<>> THEN <<>>
    ELSE LET m == MatchLen(s)
         IN IF m > 0
            THEN HrefOpen \o SubSeq(s, Len(PatternHead) + 1, m) \o From(s, m + 1)
            ELSE <<Head(s)>> \o re_sub_first(Tail(s))

(* re.sub(r'href="" url="([^"]+)"', r'href="\1"', html): every non-overlapping
   match, leftmost first, is replaced; all other characters are copied *)
RECURSIVE re_sub(_)
re_sub(s) ==
    IF s = <<>> THEN <<>>
    ELSE LET m == MatchLen(s)
         IN IF m > 0
            THEN HrefOpen \o SubSeq(s, Len(PatternHead) + 1, m) \o re_sub(From(s, m + 1))
            ELSE <<Head(s)>> \o re_sub(Tail(s))

(* index of the first occurrence of character c in s, 0 when absent *)
RECURSIVE IndexOf(_, _)
IndexOf(s, c) ==
    IF s = <<>> THEN 0
    ELSE IF Head(s) = c THEN 1
    ELSE LET r == IndexOf(Tail(s), c) IN IF r = 0 THEN 0 ELSE r + 1

(* value of the href attribute in the text of a start tag (the last one wins),
   cur when the tag has none *)
RECURSIVE HrefOf(_, _)
HrefOf(tag, cur) ==
    IF tag = <<>> THEN cur
    ELSE IF StartsWith(tag, <<" ">> \o HrefOpen)
         THEN LET rest == From(tag, Len(HrefOpen) + 2)
                  n == RunLen(rest)
              IN HrefOf(From(rest, n + 1), SubSeq(rest, 1, n))
         ELSE HrefOf(Tail(tag), cur)

(* markdownify.markdownify(html, strip=["i"]) on the markup the model feeds
   it: text, <p>, <i> and <a ...> elements.  A paragraph is set off by blank
   lines, <i> is dropped and its content kept, an anchor becomes [text](href)
   when its href is non-empty and its bare text otherwise.  href is the href
   of the anchor being converted. *)
RECURSIVE markdownify(_, _)
markdownify(s, href) ==
    IF s = <<>> THEN <<>>
    ELSE IF Head(s) # "<" THEN <<Head(s)>> \o markdownify(Tail(s), href)
    ELSE LET j == IndexOf(s, ">")
             tag == SubSeq(s, 2, j - 1)
             rest == From(s, j + 1)
         IN IF j = 0 THEN <<Head(s)>> \o markdownify(Tail(s), href)
            ELSE IF tag \in {<<"p">>, <<"/", "p">>}
                 THEN <<"\n", "\n">> \o markdownify(rest, href)
            ELSE IF tag \in {<<"i">>, <<"/", "i">>}
                 THEN markdownify(rest, href)
            ELSE IF tag = <<"/", "a">>
                 THEN (IF href = <<>> THEN <<>> ELSE <<"]", "(">> \o href \o <<")">>)
                      \o markdownify(rest, <<>>)
            ELSE IF Head(tag) = "a" /\ (Len(tag) = 1 \/ tag[2] = " ")
                 THEN LET h == HrefOf(Tail(tag), <<>>)
                      IN (IF h = <<>> THEN <<>> ELSE <<"[">>) \o markdownify(rest, h)
            ELSE markdownify(rest, href)

Space(c) == c \in {" ", "\n"}

(* str.strip() *)
RECURSIVE strip(_)
strip(s) ==
    IF s = <<>> THEN <<>>
    ELSE IF Space(Head(s)) THEN strip(Tail(s))
    ELSE IF Space(s[Len(s)]) THEN strip(SubSeq(s, 1, Len(s) - 1))
    ELSE s

(* html_to_markdown guarded by html == "" instead of not html: None passes through *)
html_to_markdown_eq(h) ==
    IF h = Val(<<>>) THEN Val(<<>>)
    ELSE IF h = None THEN None
    ELSE Val(strip(markdownify(re_sub(h[1]), <<>>)))

(* html_to_markdown(html): html is None or a str; the result is a str *)
html_to_markdown(h) ==
    IF Falsy(h) THEN Val(<<>>)
    ELSE Val(strip(markdownify(re_sub(h[1]), <<>>)))

----------------------------------------------------------------------------
(* The database engine: tables, rows, the FTS index and triggers *)

Columns == {"collection_id", "cancer_type", "location", "species", "subject_count",
            "date_updated", "doi", "image_types", "supporting_data", "description"}

(* the columns of collections_fts *)
FtsColumns == {"collection_id", "cancer_type", "location", "species",
               "image_types", "supporting_data", "description"}

TriggerNames == {"collections_ai", "collections_ad", "collections_au"}

(* a database: its tables, the keys of metadata, the rows of collections by
   rowid, the entries of collections_fts (a bag: an entry inserted twice is
   found twice) and the triggers on collections *)
EmptyDB == [tables |-> {}, metadata |-> {}, rows |-> <<>>, fts |-> EmptyBag,
            triggers |-> {}]

NoFile == [exists |-> FALSE, db |-> EmptyDB]

(* what INSERT INTO collections_fts (rowid, ...) VALUES (...) indexes *)
FtsEntry(rowid, row) == <<rowid, [c \in FtsColumns |-> row[c]]>>

FtsInsert(db, rowid, row) ==
    [db EXCEPT !.fts = @ (+) SetToBag({FtsEntry(rowid, row)})]

(* INSERT INTO collections_fts (collections_fts, rowid, ...) VALUES ('delete', ...) *)
FtsDelete(db, rowid, row) ==
    [db EXCEPT !.fts = @ (-) SetToBag({FtsEntry(rowid, row)})]

(* the bodies of the three triggers *)
collections_ai(db, newid, new) == FtsInsert(db, newid, new)

collections_ad(db, oldid, old) == FtsDelete(db, oldid, old)

collections_au(db, oldid, old, newid, new) ==
    FtsInsert(FtsDelete(db, oldid, old), newid, new)

(* 1 when the named trigger exists and so fires, 0 otherwise *)
Fires(db, name) == IF name \in db.triggers THEN 1 ELSE 0

RowIds(db) == DOMAIN db.rows

(* the rowid SQLite gives a row inserted without one *)
NextRowid(db) ==
    IF RowIds(db) = {} THEN 1
    ELSE (CHOOSE m \in RowIds(db) : \A r \in RowIds(db) : r <= m) + 1

(* rows that the PRIMARY KEY on collection_id forbids beside a row with this
   collection_id: SQLite's unique index treats NULLs as distinct, and a
   TEXT PRIMARY KEY of a rowid table does not imply NOT NULL *)
Conflicts(db, row, self) ==
    {r \in RowIds(db) \ self :
        row.collection_id # None /\ db.rows[r].collection_id = row.collection_id}

(* INSERT OR IGNORE: a row in conflict is dropped silently *)
SqlInsertOrIgnore(db, row) ==
    IF Conflicts(db, row, {}) # {} THEN [ok |-> TRUE, kind |-> "", db |-> db]
    ELSE LET rid == NextRowid(db)
         IN [ok |-> TRUE, kind |-> "", db |-> [db EXCEPT !.rows = (rid :> row) @@ @]]

(* INSERT INTO collections (...) VALUES (...) *)
SqlInsert(db, row) ==
    IF "collections" \notin db.tables THEN [ok |-> FALSE, kind |-> "OperationalError", db |-> db]
    ELSE IF Conflicts(db, row, {}) # {} THEN [ok |-> FALSE, kind |-> "IntegrityError", db |-> db]
    ELSE LET rid == NextRowid(db)
             stored == [db EXCEPT !.rows = (rid :> row) @@ @]
         IN [ok |-> TRUE, kind |-> "",
             db |-> IF Fires(db, "collections_ai") = 1
                    THEN collections_ai(stored, rid, row) ELSE stored]

(* INSERT OR REPLACE INTO collections (...) VALUES (...): the rows in conflict
   are deleted first; with recursive_triggers off (SQLite's default) the delete
   trigger does not fire for them *)
SqlInsertOrReplace(db, row) ==
    LET rid == NextRowid(db)
        keep == RowIds(db) \ Conflicts(db, row, {})
        stored == [db EXCEPT !.rows = (rid :> row) @@ [r \in keep |-> db.rows[r]]]
    IN [ok |-> TRUE, kind |-> "",
        db |-> IF Fires(db, "collections_ai") = 1
               THEN collections_ai(stored, rid, row) ELSE stored]

(* UPDATE collections SET rowid = newid, <every column> = new WHERE rowid = rid *)
SqlUpdate(db, rid, newid, new) ==
    IF Conflicts(db, new, {rid}) # {} \/ newid \in RowIds(db) \ {rid}
    THEN [ok |-> FALSE, kind |-> "IntegrityError", db |-> db]
    ELSE LET old == db.rows[rid]
             keep == RowIds(db) \ {rid}
             stored == [db EXCEPT !.rows = (newid :> new) @@ [r \in keep |-> db.rows[r]]]
         IN [ok |-> TRUE, kind |-> "",
             db |-> IF Fires(db, "collections_au") = 1
                    THEN collections_au(stored, rid, old, newid, new) ELSE stored]

(* DELETE FROM collections WHERE rowid = rid *)
SqlDelete(db, rid) ==
    LET old == db.rows[rid]
        keep == RowIds(db) \ {rid}
        stored == [db EXCEPT !.rows = [r \in keep |-> db.rows[r]]]
    IN [ok |-> TRUE, kind |-> "",
        db |-> IF Fires(db, "collections_ad") = 1
               THEN collections_ad(stored, rid, old) ELSE stored]

(* the bulk population with description left out of the column list *)
PopulateFtsNoDescription(db) ==
    [db EXCEPT !.fts = @ (+) SetToBag({FtsEntry(r, [db.rows[r] EXCEPT !.description = None])
                                          : r \in RowIds(db)})]

(* INSERT INTO collections_fts (rowid, ...) SELECT rowid, ... FROM collections *)
PopulateFts(db) ==
    [db EXCEPT !.fts = @ (+) SetToBag({FtsEntry(r, db.rows[r]) : r \in RowIds(db)})]

(* what collections_fts holds when it mirrors collections exactly *)
Projection(db) == SetToBag({FtsEntry(r, db.rows[r]) : r \in RowIds(db)})

----------------------------------------------------------------------------
(* Inputs: what the API returns, and what lies at the output path *)

P_HI == <<"<","p",">","h","i","<","/","p",">">>

(* the eight keys of a record besides collection_id and description *)
OtherValue == [cancer_type |-> Val("lung"), location |-> Val("chest"),
               species |-> Val("human"), subject_count |-> Val(42),
               date_updated |-> Val("2024-01-01"), doi |-> Val("10.7937/x"),
               image_types |-> Val("CT"), supporting_data |-> Val("clinical")]

(* a key is absent (<<>>) or present with a value (<<v>>), which may be None *)
IdOptions == {<<>>, <<None>>, <<Val("A")>>, <<Val("B")>>}
DescriptionOptions == {<<>>, <<None>>, <<Val(<<>>)>>, <<Val(P_HI)>>}

Dict(id, desc, others) ==
    [k \in (IF id = <<>> THEN {} ELSE {"collection_id"})
           \cup (IF desc = <<>> THEN {} ELSE {"description"})
           \cup (IF others THEN DOMAIN OtherValue ELSE {})
       |-> IF k = "collection_id" THEN id[1]
           ELSE IF k = "description" THEN desc[1]
           ELSE OtherValue[k]]

Records == {Dict(id, desc, others) :
               id \in IdOptions, desc \in DescriptionOptions, others \in BOOLEAN}

Lists == UNION {[1..n -> Records] : n \in 0..MaxRecords}

ApiOutcomes == {"ok", "timeout", "status", "json", "nokey"}

(* the row create_database stores for an input record (lines 109-127) *)
Row(coll) ==
    [k \in Columns |-> IF k = "description"
                       THEN html_to_markdown(Get(coll, "description", Val(<<>>)))
                       ELSE Get(coll, k, None)]

MetadataKeys == {"schema_version", "built_at", "source_url"}

AllTables == {"metadata", "collections", "collections_fts"}

(* a row written by a later client of the database *)
ClientRow(id, cancer) ==
    [k \in Columns |-> IF k = "collection_id" THEN id
                       ELSE IF k = "cancer_type" THEN cancer
                       ELSE IF k = "description" THEN Val(<<>>)
                       ELSE None]

ClientRows == {ClientRow(id, Val("skin")) : id \in {None, Val("A"), Val("C")}}

(* the file an earlier build left at the output path *)
OldFile ==
    [exists |-> TRUE,
     db |-> PopulateFts([tables |-> AllTables, metadata |-> MetadataKeys,
                         rows |-> (1 :> ClientRow(Val("OLD"), Val("old"))),
                         fts |-> EmptyBag, triggers |-> TriggerNames])]

Closed == [open |-> FALSE, intxn |-> FALSE, db |-> EmptyDB]

NoError == [at |-> "", kind |-> ""]

----------------------------------------------------------------------------
(* main() and create_database(), one statement at a time *)

(* create_database without the removal of an existing file *)
ProgramNoUnlink ==
    <<"connect", "create_metadata", "insert_metadata",
      "create_collections", "create_fts", "insert_rows", "populate_fts",
      "create_triggers", "commit", "count", "close">>

(* create_database with the triggers installed before the rows are inserted *)
ProgramTriggersFirst ==
    <<"unlink", "connect", "create_metadata", "insert_metadata",
      "create_collections", "create_fts", "create_triggers", "insert_rows",
      "populate_fts", "commit", "count", "close">>

(* create_database with the bulk population ahead of the insert loop *)
ProgramPopulateFirst ==
    <<"unlink", "connect", "create_metadata", "insert_metadata",
      "create_collections", "create_fts", "populate_fts", "insert_rows",
      "create_triggers", "commit", "count", "close">>

(* the statements of create_database in program order *)
Program == <<"unlink", "connect", "create_metadata", "insert_metadata",
             "create_collections", "create_fts", "insert_rows", "populate_fts",
             "create_triggers", "commit", "count", "close">>

(* the label after l *)
After(l) ==
    LET i == CHOOSE j \in 1..Len(Program) : Program[j] = l
    IN IF i = Len(Program) THEN "done" ELSE Program[i + 1]

Init ==
    /\ pc = "main"
    /\ api \in ApiOutcomes
    /\ requests = 0
    /\ collections = <<>>
    /\ entered = FALSE
    /\ prior \in {NoFile, OldFile}
    /\ file = prior
    /\ conn = Closed
    /\ idx = 1
    /\ fired = 0
    /\ bulk = 0
    /\ commits = 0
    /\ count = 0
    /\ error = NoError
    /\ writes = 0
    /\ markup = <<>>
    /\ html = None
    /\ fixed = <<>>
    /\ md = None

(* an uncaught exception: the process ends, the connection is dropped without
   a commit and what it had not committed is rolled back *)
Abort(kind) ==
    /\ pc' = "aborted"
    /\ error' = [at |-> pc, kind |-> kind]
    /\ conn' = Closed

(* a statement that succeeded with result db.  The sqlite3 module opens a
   transaction before the first INSERT and leaves it open until commit();
   outside a transaction each statement is committed to the file at once *)
Executed(db, dml) ==
    LET t == conn.intxn \/ dml
    IN /\ conn' = [open |-> TRUE, intxn |-> t, db |-> db]
       /\ file' = IF t THEN file ELSE [exists |-> TRUE, db |-> db]
       /\ pc' = After(pc)
       /\ error' = error

(* main() with the output path cleared before the fetch *)
FetchAfterUnlink ==
    /\ pc = "main"
    /\ requests' = requests + 1
    /\ file' = NoFile
    /\ IF api = "ok"
       THEN /\ collections' \in Lists
            /\ entered' = TRUE
            /\ pc' = After("unlink")
            /\ UNCHANGED <<conn, error>>
       ELSE /\ Abort("KeyError")
            /\ UNCHANGED <<collections, entered>>
    /\ UNCHANGED <<api, prior, idx, fired, bulk, commits, count, writes>>
    /\ UNCHANGED html_vars

(* main(): collections = fetch_collections(), then create_database(output, collections) *)
Fetch ==
    /\ pc = "main"
    /\ requests' = requests + 1
    /\ IF api = "ok"
       THEN /\ collections' \in Lists
            /\ entered' = TRUE
            /\ pc' = Program[1]
            /\ UNCHANGED <<conn, error>>
       ELSE /\ Abort(CASE api = "timeout" -> "TimeoutException"
                       [] api = "status" -> "HTTPStatusError"
                       [] api = "json" -> "JSONDecodeError"
                       [] OTHER -> "KeyError")
            /\ UNCHANGED <<collections, entered>>
    /\ UNCHANGED <<api, prior, file, idx, fired, bulk, commits, count, writes>>
    /\ UNCHANGED html_vars

(* if db_path.exists(): db_path.unlink() *)
Unlink ==
    /\ pc = "unlink"
    /\ file' = IF file.exists THEN NoFile ELSE file
    /\ pc' = After(pc)
    /\ UNCHANGED <<api, requests, collections, entered, prior, conn, idx,
                   fired, bulk, commits, count, error, writes>>
    /\ UNCHANGED html_vars

(* sqlite3.connect(db_path): opens the database at the path, creating an
   empty one when there is no file *)
Connect ==
    /\ pc = "connect"
    /\ file' = IF file.exists THEN file ELSE [exists |-> TRUE, db |-> EmptyDB]
    /\ conn' = [open |-> TRUE, intxn |-> FALSE, db |-> file'.db]
    /\ pc' = After(pc)
    /\ UNCHANGED <<api, requests, collections, entered, prior, idx,
                   fired, bulk, commits, count, error, writes>>
    /\ UNCHANGED html_vars

(* CREATE TABLE / CREATE VIRTUAL TABLE name *)
CreateTable(label, name) ==
    /\ pc = label
    /\ IF name \in conn.db.tables
       THEN Abort("OperationalError") /\ UNCHANGED file
       ELSE Executed([conn.db EXCEPT !.tables = @ \cup {name}], FALSE)
    /\ UNCHANGED <<api, requests, collections, entered, prior, idx,
                   fired, bulk, commits, count, writes>>
    /\ UNCHANGED html_vars

CreateMetadata == CreateTable("create_metadata", "metadata")

CreateCollections == CreateTable("create_collections", "collections")

CreateFts == CreateTable("create_fts", "collections_fts")

(* the three INSERT INTO metadata statements *)
InsertMetadata ==
    /\ pc = "insert_metadata"
    /\ IF "metadata" \notin conn.db.tables
       THEN Abort("OperationalError") /\ UNCHANGED file
       ELSE IF conn.db.metadata \cap MetadataKeys # {}
       THEN Abort("IntegrityError") /\ UNCHANGED file
       ELSE Executed([conn.db EXCEPT !.metadata = @ \cup MetadataKeys], TRUE)
    /\ UNCHANGED <<api, requests, collections, entered, prior, idx,
                   fired, bulk, commits, count, writes>>
    /\ UNCHANGED html_vars

(* for coll in collections: one INSERT INTO collections per record *)
InsertRow ==
    /\ pc = "insert_rows"
    /\ idx <= Len(collections)
    /\ LET r == SqlInsert(conn.db, Row(collections[idx]))
       IN IF r.ok
          THEN /\ conn' = [open |-> TRUE, intxn |-> TRUE, db |-> r.db]
               /\ idx' = idx + 1
               /\ fired' = fired + Fires(conn.db, "collections_ai")
               /\ UNCHANGED <<pc, error>>
          ELSE /\ Abort(r.kind)
               /\ UNCHANGED <<idx, fired>>
    /\ UNCHANGED <<api, requests, collections, entered, prior, file,
                   bulk, commits, count, writes>>
    /\ UNCHANGED html_vars

(* the loop ends when every record has been inserted *)
InsertDone ==
    /\ pc = "insert_rows"
    /\ idx > Len(collections)
    /\ pc' = After(pc)
    /\ UNCHANGED pipeline_vars
    /\ UNCHANGED html_vars

(* INSERT INTO collections_fts (...) SELECT ... FROM collections *)
Populate ==
    /\ pc = "populate_fts"
    /\ IF {"collections", "collections_fts"} \subseteq conn.db.tables
       THEN Executed(PopulateFts(conn.db), TRUE) /\ bulk' = bulk + 1
       ELSE Abort("OperationalError") /\ UNCHANGED <<file, bulk>>
    /\ UNCHANGED <<api, requests, collections, entered, prior, idx,
                   fired, commits, count, writes>>
    /\ UNCHANGED html_vars

(* the three CREATE TRIGGER statements *)
CreateTriggers ==
    /\ pc = "create_triggers"
    /\ IF "collections" \notin conn.db.tables \/ conn.db.triggers \cap TriggerNames # {}
       THEN Abort("OperationalError") /\ UNCHANGED file
       ELSE Executed([conn.db EXCEPT !.triggers = @ \cup TriggerNames], FALSE)
    /\ UNCHANGED <<api, requests, collections, entered, prior, idx,
                   fired, bulk, commits, count, writes>>
    /\ UNCHANGED html_vars

(* conn.commit() *)
Commit ==
    /\ pc = "commit"
    /\ file' = [exists |-> TRUE, db |-> conn.db]
    /\ conn' = [conn EXCEPT !.intxn = FALSE]
    /\ commits' = commits + 1
    /\ pc' = After(pc)
    /\ UNCHANGED <<api, requests, collections, entered, prior, idx,
                   fired, bulk, count, error, writes>>
    /\ UNCHANGED html_vars

(* the SELECT COUNT of the rows of collections *)
Count ==
    /\ pc = "count"
    /\ IF "collections" \in conn.db.tables
       THEN count' = Cardinality(RowIds(conn.db)) /\ pc' = After(pc)
                 /\ UNCHANGED <<conn, error>>
       ELSE Abort("OperationalError") /\ UNCHANGED count
    /\ UNCHANGED <<api, requests, collections, entered, prior, file, idx,
                   fired, bulk, commits, writes>>
    /\ UNCHANGED html_vars

(* conn.close(); create_database and main return and the process ends, and
   with it the list it held in memory *)
Close ==
    /\ pc = "close"
    /\ conn' = Closed
    /\ collections' = <<>>
    /\ pc' = After(pc)
    /\ UNCHANGED <<api, requests, entered, prior, file, idx,
                   fired, bulk, commits, count, error, writes>>
    /\ UNCHANGED html_vars

----------------------------------------------------------------------------
(* Later direct writes to collections in the finished database, each
   statement committed on its own *)

Written(r, n) ==
    /\ pc = "done"
    /\ writes < MaxWrites
    /\ r.ok
    /\ file' = [file EXCEPT !.db = r.db]
    /\ writes' = writes + 1
    /\ fired' = fired + n
    /\ UNCHANGED <<pc, api, requests, collections, entered, prior, conn,
                   idx, bulk, commits, count, error>>
    /\ UNCHANGED html_vars

WriteInsert ==
    \E row \in ClientRows :
        Written(SqlInsert(file.db, row), Fires(file.db, "collections_ai"))

WriteInsertOrReplace ==
    \E row \in ClientRows :
        Written(SqlInsertOrReplace(file.db, row), Fires(file.db, "collections_ai"))

WriteUpdate ==
    \E rid \in RowIds(file.db), row \in ClientRows :
        \E newid \in {rid, NextRowid(file.db)} :
            Written(SqlUpdate(file.db, rid, newid, row), Fires(file.db, "collections_au"))

WriteDelete ==
    \E rid \in RowIds(file.db) :
        Written(SqlDelete(file.db, rid), Fires(file.db, "collections_ad"))

Next ==
    \/ Fetch
    \/ Unlink
    \/ Connect
    \/ CreateMetadata
    \/ InsertMetadata
    \/ CreateCollections
    \/ CreateFts
    \/ InsertRow
    \/ InsertDone
    \/ Populate
    \/ CreateTriggers
    \/ Commit
    \/ Count
    \/ Close
    \/ WriteInsert
    \/ WriteInsertOrReplace
    \/ WriteUpdate
    \/ WriteDelete

Spec == Init /\ [][Next]_vars

----------------------------------------------------------------------------
(* html_to_markdown on its own: descriptions made of anchors.  markup lists
   what follows "<a" symbol by symbol; "next" closes the anchor and opens
   another one. *)

Symbols == {"href", "url", "id", "sp", "next"}

Text(sym) ==
    CASE sym = "href" -> <<" ","h","r","e","f","=",QUOTE,QUOTE>>
      [] sym = "url" -> <<" ","u","r","l","=",QUOTE,"X",QUOTE>>
      [] sym = "id" -> <<" ","i","d","=",QUOTE,"c",QUOTE>>
      [] sym = "sp" -> <<" ">>
      [] sym = "hrefX" -> <<" ","h","r","e","f","=",QUOTE,"X",QUOTE>>
      [] OTHER -> <<">","t","<","/","a",">","<","a">>

Render(m) ==
    <<"<","a">> \o Flatten([i \in 1..Len(m) |-> Text(m[i])]) \o <<">","t","<","/","a",">">>

Markups == UNION {[1..n -> Symbols] : n \in 0..MaxSymbols}

InitHtml ==
    /\ pc = "html"
    /\ markup \in Markups
    /\ html \in {Val(Render(markup))} \cup (IF markup = <<>> THEN {None, Val(<<>>)} ELSE {})
    /\ fixed = <<>>
    /\ md = None
    /\ api = "ok"
    /\ requests = 0
    /\ collections = <<>>
    /\ entered = FALSE
    /\ prior = NoFile
    /\ file = NoFile
    /\ conn = Closed
    /\ idx = 1
    /\ fired = 0
    /\ bulk = 0
    /\ commits = 0
    /\ count = 0
    /\ error = NoError
    /\ writes = 0

(* one call of html_to_markdown(html): fixed is html after line 47, md the
   value returned *)
HtmlToMarkdown ==
    /\ pc = "html"
    /\ fixed' = IF Falsy(html) THEN fixed ELSE re_sub(html[1])
    /\ md' = html_to_markdown(html)
    /\ pc' = "html_done"
    /\ UNCHANGED <<markup, html>>
    /\ UNCHANGED pipeline_vars

NextHtml == HtmlToMarkdown

SpecHtml == InitHtml /\ [][NextHtml]_vars

----------------------------------------------------------------------------
(* Vocabulary of the properties *)

(* the anchors of a markup: the runs of symbols between "next" symbols *)
RECURSIVE Anchors(_, _)
Anchors(m, cur) ==
    IF m = <<>> THEN <<cur>>
    ELSE IF Head(m) = "next" THEN <<cur>> \o Anchors(Tail(m), <<>>)
    ELSE Anchors(Tail(m), Append(cur, Head(m)))

(* the anchors of a text: each runs from one "<a" to the next *)
RECURSIVE AnchorTexts(_, _)
AnchorTexts(s, cur) ==
    IF s = <<>> THEN <<cur>>
    ELSE IF StartsWith(s, <<"<","a">>) /\ cur # <<>>
         THEN <<cur>> \o AnchorTexts(Tail(Tail(s)), <<"<","a">>)
    ELSE AnchorTexts(Tail(s), Append(cur, Head(s)))

RECURSIVE Contains(_, _)
Contains(s, p) ==
    IF Len(s) < Len(p) THEN FALSE
    ELSE StartsWith(s, p) \/ Contains(Tail(s), p)

Has(a, sym) == \E i \in 1..Len(a) : a[i] = sym

(* the markup with every href immediately followed by url turned into one
   href="X", leftmost first *)
RECURSIVE Repaired(_)
Repaired(m) ==
    IF m = <<>> THEN <<>>
    ELSE IF Len(m) >= 2 /\ m[1] = "href" /\ m[2] = "url"
         THEN <<"hrefX">> \o Repaired(Tail(Tail(m)))
    ELSE <<Head(m)>> \o Repaired(Tail(m))

Converted == pc = "html_done" /\ ~Falsy(html)

(* C8 as stated: every anchor that has an empty href and a url="X" attribute,
   in whatever order and with whatever between them, comes out with href="X" *)
C8_AnyOrderRewritten ==
    Converted =>
        LET a == Anchors(markup, <<>>)
            out == AnchorTexts(fixed, <<>>)
        IN \A k \in 1..Len(a) :
              (Has(a[k], "href") /\ Has(a[k], "url"))
                  => Contains(out[k], Text("hrefX"))

(* C8 amended: html_to_markdown replaces every occurrence of the exact text
   href="" url="X" (this order, one space between, X non-empty) by href="X",
   every occurrence and not only the first, and changes nothing else: an
   anchor whose two attributes are in the other order or are separated by
   anything but one space is left as it was *)
C8_AdjacentPairsRewritten ==
    Converted => fixed = Render(Repaired(markup))

C8_Witness ==
    /\ Converted
    /\ markup = <<"href", "url", "next", "href", "url">>
    /\ fixed = Render(<<"hrefX", "next", "hrefX">>)

----------------------------------------------------------------------------
(* Properties of the pipeline *)

(* every statement of create_database has run and the commit is done; only
   conn.close() is left *)
Built == pc = "close"

(* the rows a build stores for a list of records: record k at rowid k *)
Stored(list) == [k \in 1..Len(list) |-> Row(list[k])]

Complete(db) ==
    /\ db.tables = AllTables
    /\ db.triggers = TriggerNames
    /\ db.metadata = MetadataKeys

(* C1: after a successful build the number of rows of collections (the count
   the run reports, and the count in the file) equals the number of records
   fetched, the empty list included *)
C1_RowCountEqualsInput ==
    Built => /\ count = Len(collections)
             /\ Cardinality(RowIds(file.db)) = Len(collections)

C1_Witness ==
    Built /\ Len(collections) >= 2 /\ count = Len(collections)

(* C2: after a successful build collections_fts holds exactly one entry per
   row of collections, with the row's rowid and indexed values, and nothing
   else *)
C2_IndexMirrorsRows ==
    Built => file.db.fts = Projection(file.db)

C2_Witness ==
    /\ Built
    /\ Cardinality(RowIds(file.db)) >= 2
    /\ \A r \in RowIds(file.db) : CopiesIn(FtsEntry(r, file.db.rows[r]), file.db.fts) = 1

(* C3: once a build has completed, after any sequence of direct INSERT,
   UPDATE and DELETE statements on collections the triggers keep
   collections_fts equal to the projection of collections *)
C3_TriggersKeepIndexInSync ==
    pc = "done" => file.db.fts = Projection(file.db)

(* C4: nothing of an existing file at the output path is left when the first
   table is created (the database at the path is new and empty), and after
   a successful build collections holds exactly the rows of the fresh input *)
C4_FullRebuild ==
    /\ pc = "create_metadata" => file = [exists |-> TRUE, db |-> EmptyDB]
    /\ Built => file.db.rows = Stored(collections)

C4_Witness ==
    /\ Built
    /\ prior = OldFile
    /\ Len(collections) >= 1
    /\ file.db.rows = Stored(collections)

(* C5: an error in fetch_collections ends the run after exactly one request,
   before create_database is entered and with the file at the output path
   as it was *)
C5_FetchErrorBeforeDatabaseWork ==
    (pc = "aborted" /\ error.at = "main") =>
        /\ requests = 1
        /\ ~entered
        /\ ~conn.open
        /\ file = prior

C5_Witness ==
    /\ pc = "aborted"
    /\ error = [at |-> "main", kind |-> "KeyError"]
    /\ prior = OldFile
    /\ file = OldFile

(* C6: in every database state a build reaches, and after later writes,
   collection_id is unique and non-null *)
C6_IdUniqueNonNull ==
    \A db \in {conn.db, file.db} :
        \A r \in RowIds(db) :
            /\ db.rows[r].collection_id # None
            /\ \A q \in RowIds(db) \ {r} :
                  db.rows[q].collection_id # db.rows[r].collection_id

(* C7: a record whose description is empty, null or absent is stored with
   description '' (not NULL), html_to_markdown having returned '', and with
   its other nine fields as they came *)
C7_EmptyDescriptionStoredEmpty ==
    Built =>
        \A k \in 1..Len(collections) :
            LET coll == collections[k]
                d == Get(coll, "description", Val(<<>>))
            IN Falsy(d) =>
                  /\ html_to_markdown(d) = Val(<<>>)
                  /\ file.db.rows[k].description = Val(<<>>)
                  /\ \A c \in Columns \ {"description"} :
                        file.db.rows[k][c] = Get(coll, c, None)

C7_Witness ==
    /\ Built
    /\ Len(collections) = 2
    /\ "description" \notin DOMAIN collections[1]
    /\ "description" \in DOMAIN collections[2]
    /\ collections[2].description = None
    /\ "doi" \in DOMAIN collections[2]
    /\ file.db.rows[1].description = Val(<<>>)
    /\ file.db.rows[2].description = Val(<<>>)

(* C9: while the records are inserted and while the bulk population runs no
   trigger exists and none has fired; the bulk population starts with an
   empty index once every record is in, runs once, and leaves every entry
   indexed once *)
C9_OneBulkPopulationNoTrigger ==
    /\ pc \in {"insert_rows", "populate_fts"} =>
          conn.db.triggers = {} /\ fired = 0 /\ bulk = 0
    /\ pc = "populate_fts" =>
          /\ Cardinality(RowIds(conn.db)) = Len(collections)
          /\ conn.db.fts = EmptyBag
    /\ pc \in {"create_triggers", "commit", "count", "close"} =>
          /\ bulk = 1
          /\ fired = 0
          /\ \A e \in BagToSet(conn.db.fts) : CopiesIn(e, conn.db.fts) = 1

C9_Witness ==
    /\ pc = "create_triggers"
    /\ bulk = 1
    /\ fired = 0
    /\ Len(collections) >= 2
    /\ conn.db.fts = Projection(conn.db)

(* C10: when the engine rejects an INSERT of the loop, the run ends there:
   no commit, no bulk population, no trigger; the output path holds a
   database that opens and answers queries but is incomplete, and nothing of
   a file that was there before *)
C10_InsertFailureLeavesPartialDatabase ==
    (pc = "aborted" /\ error.at = "insert_rows") =>
        /\ commits = 0
        /\ bulk = 0
        /\ file.db.triggers = {}
        /\ file.exists
        /\ "metadata" \in file.db.tables
        /\ ~Complete(file.db)
        /\ file # prior
        /\ RowIds(file.db) = {}

C10_Witness ==
    /\ pc = "aborted"
    /\ error = [at |-> "insert_rows", kind |-> "IntegrityError"]
    /\ idx = 2
    /\ Len(collections) = 2
    /\ prior = OldFile
    /\ file.exists

====
